---- MODULE Spec2Model ----
(***************************************************************************)
(* Polla Champions (src/polla_champions.py): name matching (norm,          *)
(* best_match), the standings source (obtener_standings_api with the       *)
(* static fallback ejemplo_standings), the per-participant ranking         *)
(* (calcular_ranking) and the control flow of main.                        *)
(*                                                                         *)
(* Python strings are TLA+ strings; a character is a string of length 1.   *)
(* Optional[str] is a string, with the reserved string None for Python's   *)
(* None (no team or label of the model has that name).                     *)
(***************************************************************************)
EXTENDS Integers, Sequences, FiniteSets, TLC

(* ------------------------------------------------------------------ *)
(* Local variables                                                      *)
(* ------------------------------------------------------------------ *)

\* v = x; F(v): an assignment to a local variable. x is evaluated once, and F
\* reads its value.
Bind(x, F(_)) == CHOOSE r \in { F(v) : v \in {x} } : TRUE

(* ------------------------------------------------------------------ *)
(* Characters                                                           *)
(* ------------------------------------------------------------------ *)

\* Every character of the model's strings, in code-point order (the order of
\* Python's str comparison, used by sorted() on tokens).
CharOrder == " -.0123456789ABCDEFGHIJKLMNOPQRSTUVWXYZ_abcdefghijklmnopqrstuvwxyzáéíóü"

UpperChars == "ABCDEFGHIJKLMNOPQRSTUVWXYZ"

LowerChars == "abcdefghijklmnopqrstuvwxyz"

\* \w of Python's re on str: letters (Unicode), digits and the underscore.
WordChars == "0123456789ABCDEFGHIJKLMNOPQRSTUVWXYZ_abcdefghijklmnopqrstuvwxyzáéíóü"

CharAt(s, i) == SubSeq(s, i, i)

CharSet(s) == { CharAt(s, i) : i \in 1..Len(s) }

IndexIn(s, ch) == CHOOSE i \in 1..Len(s) : CharAt(s, i) = ch

Ord == [ch \in CharSet(CharOrder) |-> IndexIn(CharOrder, ch)]

WordCharSet == CharSet(WordChars)

\* str.lower() on one character.
LowerOf == [ch \in CharSet(CharOrder) |->
              IF ch \in CharSet(UpperChars)
                THEN CharAt(LowerChars, IndexIn(UpperChars, ch))
                ELSE ch]

\* str.upper() on one character.
UpperOf == [ch \in CharSet(CharOrder) |->
              IF ch \in CharSet(LowerChars)
                THEN CharAt(UpperChars, IndexIn(LowerChars, ch))
                ELSE IF ch = "á" THEN "Á" ELSE IF ch = "é" THEN "É"
                ELSE IF ch = "í" THEN "Í" ELSE IF ch = "ó" THEN "Ó"
                ELSE IF ch = "ü" THEN "Ü" ELSE ch]

\* A recursion is written as a function of what changes from one step to the
\* next, so that each step works on values.
MapChars(f, s) ==
  LET Go[t \in STRING] == IF t = "" THEN "" ELSE f[Head(t)] \o Go[Tail(t)]
  IN Go[s]

lower(s) == MapChars(LowerOf, s)

upper(s) == MapChars(UpperOf, s)

\* re.sub(r"\W+", "", s): every character that is not a word character is dropped.
StripNonWord(s) ==
  LET Go[t \in STRING] ==
        IF t = "" THEN ""
        ELSE (IF Head(t) \in WordCharSet THEN Head(t) ELSE "") \o Go[Tail(t)]
  IN Go[s]

\* norm (every argument of the model is a str, so the isinstance branch is taken).
norm(s) == lower(StripNonWord(s))

\* Python's `a in b` on strings.
IsSubstring(a, b) ==
  \E i \in 0..(Len(b) - Len(a)) : SubSeq(b, i + 1, i + Len(a)) = a

(* ------------------------------------------------------------------ *)
(* rapidfuzz: fuzz.token_sort_ratio and process.extractOne              *)
(* ------------------------------------------------------------------ *)

\* str < str: lexicographic by code point.
StrLess(a, b) ==
  LET Less[x \in STRING, y \in STRING] ==
        IF y = "" THEN FALSE
        ELSE IF x = "" THEN TRUE
        ELSE IF Head(x) = Head(y) THEN Less[Tail(x), Tail(y)]
        ELSE Ord[Head(x)] < Ord[Head(y)]
  IN Less[a, b]

\* str.split(): the maximal runs of non-whitespace characters, in order.
split(s) ==
  LET SplitFrom[t \in STRING, cur \in STRING, acc \in Seq(STRING)] ==
        IF t = "" THEN (IF cur = "" THEN acc ELSE Append(acc, cur))
        ELSE IF Head(t) = " "
          THEN SplitFrom[Tail(t), "", IF cur = "" THEN acc ELSE Append(acc, cur)]
          ELSE SplitFrom[Tail(t), cur \o Head(t), acc]
  IN SplitFrom[s, "", <<>>]

\* sorted(tokens): insertion of each token after the tokens not greater than it.
InsertSorted(t, sq) ==
  LET Into[rest \in Seq(STRING)] ==
        IF rest = <<>> THEN <<t>>
        ELSE IF StrLess(t, Head(rest)) THEN <<t>> \o rest
        ELSE <<Head(rest)>> \o Into[Tail(rest)]
  IN Into[sq]

sorted(sq) ==
  LET Sort[rest \in Seq(STRING)] ==
        IF rest = <<>> THEN <<>> ELSE InsertSorted(Head(rest), Sort[Tail(rest)])
  IN Sort[sq]

\* " ".join(tokens)
join(sq) ==
  LET Join[rest \in Seq(STRING)] ==
        IF rest = <<>> THEN ""
        ELSE IF Len(rest) = 1 THEN Head(rest)
        ELSE Head(rest) \o " " \o Join[Tail(rest)]
  IN Join[sq]

Max2(a, b) == IF a >= b THEN a ELSE b

\* One row of the longest-common-subsequence table, given the row before it:
\* row[j + 1] is the LCS length of the prefix of a ending at ch and the first j
\* characters of b.
LcsRow(ch, b, prev) ==
  LET Cells[row \in Seq(Nat)] ==
        IF Len(row) > Len(b) THEN row
        ELSE Cells[Append(row, IF CharAt(b, Len(row)) = ch
                                 THEN prev[Len(row)] + 1
                                 ELSE Max2(prev[Len(row) + 1], row[Len(row)]))]
  IN Cells[<<0>>]

\* The table row by row: rows[i + 1][j + 1] is the LCS length of the first i
\* characters of a and the first j characters of b.
LcsTable(a, b) ==
  LET Rows[rows \in Seq(Seq(Nat))] ==
        IF Len(rows) = Len(a) + 1 THEN rows
        ELSE Rows[Append(rows, LcsRow(CharAt(a, Len(rows)), b, rows[Len(rows)]))]
  IN Rows[<< [j \in 1..(Len(b) + 1) |-> 0] >>]

LcsLen(a, b) == LcsTable(a, b)[Len(a) + 1][Len(b) + 1]

\* A float score of rapidfuzz, (1.0 - dist / total) * 100 where total - dist is
\* twice the LCS length: kept as the exact quotient 100 * twice / total.
Score(twiceLcs, total) == [twice |-> twiceLcs, total |-> total]

Scores == [twice : Nat, total : Nat \ {0}]

\* x > y on two float scores. Two scores of different quotients differ by far
\* more than the rounding of a double, and two of the same quotient are the same
\* double, so the order of the doubles is the order of the quotients.
ScoreGreater(x, y) == x.twice * y.total > y.twice * x.total

\* score == 100 on a float score.
IsPerfect(x) == x.twice = x.total

\* The integers k for which the double computation (1.0 - (100 - k) / 100) * 100
\* falls just below k, so that int() of it is k - 1.
FloatShortfall == {7, 8, 9, 10, 11, 19, 20, 21, 22, 32, 33, 44, 45, 66}

\* int((1.0 - dist / total) * 100) in double arithmetic, where total - dist is
\* twice the LCS length: the exact quotient truncated, except that an exact
\* integer k of FloatShortfall is computed just below k.
IntPercent(twiceLcs, total) ==
  IF (100 * twiceLcs) % total = 0 /\ ((100 * twiceLcs) \div total) \in FloatShortfall
    THEN ((100 * twiceLcs) \div total) - 1
    ELSE (100 * twiceLcs) \div total

\* int(score) on a float score.
int(x) == IntPercent(x.twice, x.total)

\* fuzz.ratio(a, b), a float: the normalized Indel similarity,
\* (1.0 - dist / (|a| + |b|)) * 100 with dist = |a| + |b| - 2 * LCS, and 100.0 for
\* two empty strings.
ratio(a, b) ==
  IF Len(a) + Len(b) = 0 THEN Score(1, 1)
  ELSE Score(2 * LcsLen(a, b), Len(a) + Len(b))

\* fuzz.token_sort_ratio with no processor: the tokens of each string sorted and
\* joined by one space, then ratio.
token_sort_ratio(s1, s2) ==
  Bind(join(sorted(split(s1))),
       LAMBDA a : Bind(join(sorted(split(s2))), LAMBDA b : ratio(a, b)))

(* ------------------------------------------------------------------ *)
(* State                                                                *)
(* ------------------------------------------------------------------ *)

VARIABLES
  process,        \* the module global `process`: None when rapidfuzz is not importable
  USE_STREAMLIT,  \* the module global set by the import of streamlit
  API_KEY,        \* the module global API_KEY
  pc,             \* the position of the running operation
  response,       \* the reply of the standings API to the request of a call
  fetched,        \* the outcome of the call of obtener_standings_api
  standings_df,   \* main's standings_df, or the table handed to calcular_ranking
  source_df,      \* the table before main's filtering step
  usando_api,     \* main's usando_api
  jugadores,      \* the participants mapping handed to calcular_ranking
  result,         \* what calcular_ranking returned (or raised)
  output,         \* what main has printed or rendered, in order
  query,          \* the arguments of a call of best_match
  match           \* what that call returned

vars == <<process, USE_STREAMLIT, API_KEY, pc, response, fetched, standings_df, source_df,
          usando_api, jugadores, result, output, query, match>>

\* Python's None where a str is expected.
None == "<None>"

\* Truthiness of an Optional[str]: None and the empty string are false.
Truthy(s) == s # None /\ s # ""

(* ------------------------------------------------------------------ *)
(* CONFIGURACION                                                        *)
(* ------------------------------------------------------------------ *)

\* The participants mapping, in insertion order.
JUGADORES == <<
  [id |-> "Daniela", equipos |-> <<"Napoli", "Paris Saint-Germain">>],
  [id |-> "Carlos",  equipos |-> <<"Bayern München", "Inter">>],
  [id |-> "Andrés",  equipos |-> <<"Atlético de Madrid", "Juventus">>],
  [id |-> "Bryan",   equipos |-> <<"Marseille", "Newcastle United">>],
  [id |-> "Nicolás", equipos |-> <<"Chelsea", "Tottenham Hotspur">>],
  [id |-> "Diego",   equipos |-> <<"Borussia Dortmund", "Atalanta">>],
  [id |-> "Lina",    equipos |-> <<"Manchester City", "Galatasaray">>],
  [id |-> "Felipe",  equipos |-> <<"Benfica", "Real Madrid">>],
  [id |-> "Giovany", equipos |-> <<"Arsenal", "Liverpool">>],
  [id |-> "Renzo",   equipos |-> <<"Barcelona", "Eintracht Frankfurt">>] >>

ALIASES ==
  ("Inter" :> <<"FC Internazionale Milano", "Internazionale", "Inter Milan">>) @@
  ("Marseille" :> <<"Olympique de Marseille", "OM">>) @@
  ("Benfica" :> <<"SL Benfica", "S.L. Benfica">>) @@
  ("Bayern München" :> <<"FC Bayern München", "Bayern Munich">>) @@
  ("Paris Saint-Germain" :> <<"Paris Saint Germain", "PSG">>) @@
  ("Atlético de Madrid" :> <<"Atletico Madrid">>) @@
  ("Tottenham Hotspur" :> <<"Tottenham", "Spurs">>) @@
  ("Manchester City" :> <<"Man City", "Manchester City FC">>) @@
  ("Real Madrid" :> <<"Real Madrid CF">>) @@
  ("Arsenal" :> <<"Arsenal FC">>) @@
  ("Juventus" :> <<"Juventus FC">>)

\* ALIASES.get(eq, [])
AliasesGet(eq) == IF eq \in DOMAIN ALIASES THEN ALIASES[eq] ELSE <<>>

(* ------------------------------------------------------------------ *)
(* UTILIDADES: best_match                                               *)
(* ------------------------------------------------------------------ *)

Pair(c, s) == [candidate |-> c, score |-> s]

\* The pairs (candidate, score); the candidate is None when there is none.
Pairs == [candidate : STRING, score : Nat]

\* The branch taken when rapidfuzz is absent: the first choice whose normalized
\* form contains, or is contained in, the normalized name scores 100.
SubstringMatch(n, choices) ==
  LET Scan[name_n \in STRING, rest \in Seq(STRING)] ==
        IF rest = <<>> THEN Pair(None, 0)
        ELSE Bind(norm(Head(rest)),
                  LAMBDA c : IF IsSubstring(name_n, c) \/ IsSubstring(c, name_n)
                               THEN Pair(Head(rest), 100)
                               ELSE Scan[name_n, Tail(rest)])
  IN Scan[n, choices]

\* What process.extractOne keeps while it scans: a choice and its float score.
Scored == [candidate : STRING, score : Scores]

\* process.extractOne(name, choices, scorer=fuzz.token_sort_ratio) with no
\* score_cutoff: None for no choices, else the first choice of the highest float
\* score (a later choice replaces the kept one only with a strictly higher
\* score, and the scan stops at a score of 100).
extractOne(name, choices) ==
  LET Scan[query_name \in STRING, rest \in Seq(STRING), kept \in Scored] ==
        IF rest = <<>> THEN kept
        ELSE Bind(token_sort_ratio(query_name, Head(rest)),
                  LAMBDA s : IF kept.candidate = None \/ ScoreGreater(s, kept.score)
                               THEN IF IsPerfect(s) THEN Pair(Head(rest), s)
                                    ELSE Scan[query_name, Tail(rest), Pair(Head(rest), s)]
                               ELSE Scan[query_name, Tail(rest), kept])
  IN Scan[name, choices, Pair(None, Score(0, 1))]

\* best_match: (mejor_coincidencia, score). The cutoff parameter is read by
\* neither branch; with rapidfuzz only the score of the winner is truncated.
best_match(name, choices, cutoff) ==
  IF process = None
    THEN SubstringMatch(norm(name), choices)
    ELSE Bind(extractOne(name, choices),
              LAMBDA m : IF m.candidate = None THEN Pair(None, 0)
                         ELSE Pair(m.candidate, int(m.score)))

(* ------------------------------------------------------------------ *)
(* Exceptions and data frames                                           *)
(* ------------------------------------------------------------------ *)

\* The outcome of a call: an exception raised, or a value returned.
Raise(e) == [raised |-> TRUE, error |-> e]

Return(v) == [raised |-> FALSE, value |-> v]

\* pd.DataFrame(rows) of a list of dicts: the columns are the keys of the rows, so
\* a frame built from no rows has no columns. The rows of the model carry the two
\* columns the ranking reads, Team and Pts.
DataFrame(rows) ==
  [columns |-> IF rows = <<>> THEN {} ELSE {"Team", "Pts"}, rows |-> rows]

\* drop_duplicates with keep="last": a row is dropped when its team comes again.
RECURSIVE KeepLast(_, _)
KeepLast(rows, seen) ==
  IF rows = <<>> THEN <<>>
  ELSE IF \E i \in 2..Len(rows) : rows[i].Team = Head(rows).Team
    THEN KeepLast(Tail(rows), seen)
    ELSE <<Head(rows)>> \o KeepLast(Tail(rows), seen)

RECURSIVE KeepFirst(_, _)
KeepFirst(rows, seen) ==
  IF rows = <<>> THEN <<>>
  ELSE IF Head(rows).Team \in seen THEN KeepFirst(Tail(rows), seen)
  ELSE <<Head(rows)>> \o KeepFirst(Tail(rows), seen \cup {Head(rows).Team})

\* df.drop_duplicates(subset=["Team"]).reset_index(drop=True): an empty frame is
\* returned as it is; otherwise the first row of every team name is kept, in order.
drop_duplicates(df) ==
  IF df.rows = <<>> THEN df ELSE [df EXCEPT !.rows = KeepFirst(df.rows, {})]

(* ------------------------------------------------------------------ *)
(* OBTENER STANDINGS via API                                            *)
(* ------------------------------------------------------------------ *)

\* The dict appended for one entry of a table.
RowOf(entry) == [Team |-> entry.team.name, Pts |-> entry.points]

RECURSIVE RowsOf(_)
RowsOf(table) ==
  IF table = <<>> THEN <<>> ELSE <<RowOf(Head(table))>> \o RowsOf(Tail(table))

\* rows_all: the rows of every table of standings_raw, in order.
RECURSIVE RowsAll(_)
RowsAll(standings_raw) ==
  IF standings_raw = <<>> THEN <<>>
  ELSE RowsOf(Head(standings_raw).table) \o RowsAll(Tail(standings_raw))

IsTotal(s) == upper(s.type) = "TOTAL"

\* obtener_standings_api(api_key), given the reply resp to its one request.
obtener_standings_api(api_key, resp) ==
  IF ~Truthy(api_key) THEN Raise("No se ha configurado la API key")
  ELSE IF resp.kind = "connection_error" THEN Raise("ConnectionError")
  ELSE IF resp.status_code # 200 THEN Raise("HTTP error")
  ELSE IF ~resp.is_json THEN Raise("JSONDecodeError")
  ELSE IF ~resp.has_standings THEN Raise("Respuesta sin 'standings'")
  ELSE LET standings_raw == resp.standings
           total_candidates == SelectSeq(standings_raw, IsTotal)
       IN IF total_candidates # <<>>
            THEN Return(drop_duplicates(DataFrame(RowsOf(total_candidates[1].table))))
          ELSE IF RowsAll(standings_raw) = <<>>
            THEN Raise("No se obtuvieron rows de standings")
          ELSE Return(drop_duplicates(DataFrame(RowsAll(standings_raw))))

(* ------------------------------------------------------------------ *)
(* FALLBACK: datos de ejemplo                                           *)
(* ------------------------------------------------------------------ *)

Row(team, pts) == [Team |-> team, Pts |-> pts]

ejemplo_standings ==
  DataFrame(<<
    Row("Manchester City", 13), Row("Paris Saint-Germain", 12),
    Row("Real Madrid", 12), Row("Bayern München", 11), Row("Arsenal", 11),
    Row("Napoli", 10), Row("Borussia Dortmund", 10), Row("Liverpool", 10),
    Row("Inter", 9), Row("Benfica", 9), Row("Atlético de Madrid", 8),
    Row("Barcelona", 8), Row("Juventus", 7), Row("Marseille", 6),
    Row("Newcastle United", 5), Row("Eintracht Frankfurt", 4), Row("Chelsea", 4),
    Row("Tottenham Hotspur", 3), Row("Atalanta", 2), Row("Galatasaray", 1) >>)

(* ------------------------------------------------------------------ *)
(* CALCULO RANKING POR PERSONA                                          *)
(* ------------------------------------------------------------------ *)

\* The default of best_match's cutoff parameter.
DefaultCutoff == 60

\* list(standings_df["Team"].astype(str))
official_names(df) ==
  LET Column[i \in 0..Len(df.rows)] ==
        IF i = 0 THEN <<>> ELSE Append(Column[i - 1], df.rows[i].Team)
  IN Column[Len(df.rows)]

\* lookup[team]: the Pts of the first row of the frame whose Team is team.
lookup(df, team) ==
  LET i == CHOOSE i \in 1..Len(df.rows) :
             /\ df.rows[i].Team = team
             /\ \A j \in 1..(i - 1) : df.rows[j].Team # team
  IN df.rows[i].Pts

\* posibles = [eq] + ALIASES.get(eq, [])
posibles(eq) == <<eq>> \o AliasesGet(eq)

\* if s > score: best, score = candidate, s
Better(m, kept) == IF m.score > kept.score THEN m ELSE kept

\* The loop over posibles: a probe replaces (best, score) only with a strictly
\* higher score.
BestOver(ps, names, kept) ==
  LET Over[rest \in Seq(STRING), choices \in Seq(STRING), k \in Pairs] ==
        IF rest = <<>> THEN k
        ELSE Bind(best_match(Head(rest), choices, DefaultCutoff),
                  LAMBDA m : Over[Tail(rest), choices, Better(m, k)])
  IN Over[ps, names, kept]

resolve(eq, names) == BestOver(posibles(eq), names, Pair(None, 0))

\* What one team label adds to found and to corrections, given (best, score) and
\* the points credited.
FoundOf(eq, best, score, pts) ==
  [label |-> eq,
   best |-> best,
   score |-> score,
   pts |-> pts,
   detalle |-> IF Truthy(best)
                 THEN [found |-> TRUE, name |-> best, pts |-> pts]
                 ELSE [found |-> FALSE, name |-> eq, pts |-> 0],
   note |-> IF Truthy(best) /\ score < 100
              THEN <<[kind |-> "corrected", eq |-> eq, best |-> best, score |-> score]>>
            ELSE IF ~Truthy(best)
              THEN <<[kind |-> "No encontrado", eq |-> eq, best |-> None, score |-> 0]>>
            ELSE <<>>]

\* pts = lookup.get(best, 0) if best else 0
Credit(df, r) == IF Truthy(r.candidate) THEN lookup(df, r.candidate) ELSE 0

FoundFor(df, eq, r) == FoundOf(eq, r.candidate, r.score, Credit(df, r))

Found(df, eq) ==
  Bind(official_names(df),
       LAMBDA names : Bind(resolve(eq, names), LAMBDA r : FoundFor(df, eq, r)))

\* The row appended for one participant, with what its two labels were found to be.
RowOfFound(id, f1, f2) ==
  [Jugador |-> id, Equipo1 |-> f1.detalle, Equipo2 |-> f2.detalle,
   TotalPts |-> f1.pts + f2.pts, found |-> <<f1, f2>>]

RowFor(df, j) ==
  Bind(Found(df, j.equipos[1]),
       LAMBDA f1 : Bind(Found(df, j.equipos[2]),
                        LAMBDA f2 : RowOfFound(j.id, f1, f2)))

\* for jugador, equipos in jugadores.items(): rows.append(...)
RankingRows(df, js) ==
  LET Rows[i \in 0..Len(js)] ==
        IF i = 0 THEN <<>> ELSE Append(Rows[i - 1], RowFor(df, js[i]))
  IN Rows[Len(js)]

\* corrections, in the order the labels were resolved.
Corrections(rows) ==
  LET Notes[i \in 0..Len(rows)] ==
        IF i = 0 THEN <<>>
        ELSE Notes[i - 1] \o rows[i].found[1].note \o rows[i].found[2].note
  IN Notes[Len(rows)]

RowSet(rows) == { rows[i] : i \in 1..Len(rows) }

\* The rows of S by descending Total Pts: first the rows of the highest total,
\* then those of the next, and so on.
GroupsOf(S) ==
  LET Groups[T \in SUBSET S] ==
        IF T = {} THEN <<>>
        ELSE Bind({ r \in T : \A q \in T : r.TotalPts >= q.TotalPts },
                  LAMBDA top : <<top>> \o Groups[T \ top])
  IN Groups[S]

\* sort_values("Total Pts", ascending=False).reset_index(drop=True) with the default
\* kind, quicksort, which is not a stable sort: the rows come in descending order
\* of Total Pts, and the order among rows of equal Total Pts is not determined.
\* The sorted frame is kept as the sequence of its groups of equal Total Pts, in
\* descending order; the frames the call can return are Orders of it.
sort_values(rows) == GroupsOf(RowSet(rows))

\* Every sequence that lists each element of the set S once.
RECURSIVE Listings(_)
Listings(S) ==
  IF S = {} THEN {<<>>}
  ELSE UNION { { <<x>> \o rest : rest \in Listings(S \ {x}) } : x \in S }

\* The data frames a sorted frame stands for: its groups in order, each group
\* in any order.
RECURSIVE Orders(_)
Orders(groups) ==
  IF groups = <<>> THEN {<<>>}
  ELSE { h \o t : h \in Listings(Head(groups)), t \in Orders(Tail(groups)) }

\* The end of calcular_ranking: the rows sorted, with the notes.
RankingOf(rows) ==
  IF rows = <<>> THEN Raise("KeyError: 'Total Pts'")
  ELSE Return([ranking_df |-> sort_values(rows), corrections |-> Corrections(rows)])

\* calcular_ranking(standings_df, jugadores)
calcular_ranking(df, js) ==
  IF "Team" \notin df.columns THEN Raise("KeyError: 'Team'")
  ELSE Bind(RankingRows(df, js), LAMBDA rows : RankingOf(rows))

(* ------------------------------------------------------------------ *)
(* MAIN: the filtering step                                             *)
(* ------------------------------------------------------------------ *)

\* The score a match must exceed to keep its team in the filtered standings.
FilterScore == 55

RECURSIVE Labels(_)
Labels(js) ==
  IF js = <<>> THEN {}
  ELSE {Head(js).equipos[1], Head(js).equipos[2]} \cup Labels(Tail(js))

\* sorted(S) of a set of strings.
SortedSeqOf(S) ==
  LET Sort[T \in SUBSET S] ==
        IF T = {} THEN <<>>
        ELSE Bind(CHOOSE x \in T : \A y \in T \ {x} : StrLess(x, y),
                  LAMBDA m : <<m>> \o Sort[T \ {m}])
  IN Sort[S]

\* equipos_elegidos = sorted({e for lista in jugadores.values() for e in lista})
equipos_elegidos(js) == SortedSeqOf(Labels(js))

\* if match and score > 55: equipos_filtrados.append(match)
Appended(m) ==
  IF Truthy(m.candidate) /\ m.score > FilterScore THEN <<m.candidate>> ELSE <<>>

\* equipos_filtrados: the match of every chosen label, when it is truthy and its
\* score exceeds FilterScore.
equipos_filtrados(es, oficiales) ==
  LET Matched[rest \in Seq(STRING), names \in Seq(STRING)] ==
        IF rest = <<>> THEN <<>>
        ELSE Bind(resolve(Head(rest), names), LAMBDA m : Appended(m))
             \o Matched[Tail(rest), names]
  IN Matched[es, oficiales]

Range(sq) == { sq[i] : i \in 1..Len(sq) }

\* df[df["Team"].isin(keep)].reset_index(drop=True)
isin(df, keep) ==
  LET Kept(r) == r.Team \in keep
  IN [df EXCEPT !.rows = SelectSeq(df.rows, Kept)]

\* The filtering step of main, for the participants js.
filtrar(df, js) ==
  Bind(equipos_filtrados(equipos_elegidos(js), official_names(df)),
       LAMBDA equipos : isin(df, Range(equipos)))

(* ------------------------------------------------------------------ *)
(* Bounds and input sets                                                *)
(* ------------------------------------------------------------------ *)

\* The most standings entries of an API reply, and the most table entries of a
\* reply, all its tables together.
MaxTables == 2

MaxEntries == 3

\* The most rows of a table handed to calcular_ranking, and the most participants.
MaxRows == 3

MaxJugadores == 2

\* The most choices handed to best_match.
MaxChoices == 2

SeqsUpTo(S, n) == UNION { [1..k -> S] : k \in 0..n }

\* Entries of the tables of an API reply: a team twice with different points, and
\* a second team.
ApiEntries ==
  { [team |-> [name |-> "Inter"], points |-> 9],
    [team |-> [name |-> "Inter"], points |-> 4],
    [team |-> [name |-> "Arsenal FC"], points |-> 11] }

ApiTypes == {"TOTAL", "Total", "HOME"}

\* The standings lists of at most t entries with at most e table entries in all.
RECURSIVE StandingsLists(_, _)
StandingsLists(t, e) ==
  IF t = 0 THEN {<<>>}
  ELSE {<<>>} \cup
       UNION { { <<[type |-> ty, table |-> tb]>> \o rest :
                 ty \in ApiTypes, rest \in StandingsLists(t - 1, e - Len(tb)) } :
               tb \in SeqsUpTo(ApiEntries, e) }

ApiStandings == StandingsLists(MaxTables, MaxEntries)

NoStandings == <<>>

Reply(kind, status, is_json, has_standings, standings) ==
  [kind |-> kind, status_code |-> status, is_json |-> is_json,
   has_standings |-> has_standings, standings |-> standings]

\* No request was sent.
NoResponse == Reply("none", 0, FALSE, FALSE, NoStandings)

\* What the request can meet: no connection, an error status, a body that is not
\* JSON, a JSON body without 'standings', and a JSON body with standings.
Responses ==
  { Reply("connection_error", 0, FALSE, FALSE, NoStandings),
    Reply("http", 403, TRUE, FALSE, NoStandings),
    Reply("http", 200, FALSE, FALSE, NoStandings),
    Reply("http", 200, TRUE, FALSE, NoStandings) }
  \cup { Reply("http", 200, TRUE, TRUE, st) : st \in ApiStandings }

NoFrame == DataFrame(<<>>)

NoOutcome == Return(NoFrame)

NoResult == Return([ranking_df |-> <<>>, corrections |-> <<>>])

NoQuery == [name |-> "", choices |-> <<>>, cutoff |-> DefaultCutoff]

(* ------------------------------------------------------------------ *)
(* MAIN                                                                 *)
(* ------------------------------------------------------------------ *)

\* The key main assigns when none is configured.
Placeholder == "TU_API_KEY_AQUI"

\* API_KEY after the module is loaded: None without streamlit, else the secret
\* (which may be empty) or None.
InitMain ==
  /\ pc = "start"
  /\ process \in {None, "rapidfuzz"}
  /\ USE_STREAMLIT \in BOOLEAN
  /\ API_KEY \in (IF USE_STREAMLIT THEN {None, "", "secret"} ELSE {None})
  /\ response = NoResponse
  /\ fetched = NoOutcome
  /\ standings_df = NoFrame
  /\ source_df = NoFrame
  /\ usando_api = FALSE
  /\ jugadores = JUGADORES
  /\ result = NoResult
  /\ output = <<>>
  /\ query = NoQuery
  /\ match = Pair(None, 0)

\* The source label, without its leading pictograph.
fuente(usando) ==
  IF usando THEN "Datos en vivo desde Football-Data.org"
  ELSE "Usando datos de ejemplo (sin conexión a API)"

\* main when the handler does not catch the exception of obtener_standings_api.
MainFetchUncaught ==
  /\ pc = "start"
  /\ \E resp \in Responses :
       LET key == IF ~Truthy(API_KEY) THEN Placeholder ELSE API_KEY
           r == obtener_standings_api(key, resp)
       IN /\ API_KEY' = key
          /\ fetched' = r
          /\ standings_df' = IF r.raised THEN standings_df ELSE r.value
          /\ usando_api' = ~r.raised
          /\ pc' = IF r.raised THEN "crashed" ELSE "fetched"
  /\ UNCHANGED <<process, USE_STREAMLIT, response, source_df, jugadores, result,
                 output, query, match>>

\* The try block of main and its handler: the placeholder key when none is set,
\* the call of obtener_standings_api, and ejemplo_standings on any exception.
MainFetch ==
  /\ pc = "start"
  /\ \E resp \in Responses :
       LET key == IF ~Truthy(API_KEY) THEN Placeholder ELSE API_KEY
           r == obtener_standings_api(key, resp)
           warned == IF ~Truthy(API_KEY)
                       THEN Append(output, "Usando API_KEY definida manualmente")
                       ELSE output
       IN /\ API_KEY' = key
          /\ fetched' = r
          /\ standings_df' = IF r.raised THEN ejemplo_standings ELSE r.value
          /\ usando_api' = ~r.raised
          /\ output' = IF r.raised
                         THEN Append(warned, "No se pudieron obtener datos reales")
                         ELSE warned
  /\ pc' = "fetched"
  /\ UNCHANGED <<process, USE_STREAMLIT, response, source_df, jugadores, result,
                 query, match>>

\* The filtering step; standings_df["Team"] raises KeyError on a frame without
\* that column, and nothing catches it.
MainFilter ==
  /\ pc = "fetched"
  /\ IF "Team" \in standings_df.columns
       THEN /\ source_df' = standings_df
            /\ standings_df' = filtrar(standings_df, JUGADORES)
            /\ pc' = "filtered"
       ELSE /\ pc' = "crashed"
            /\ UNCHANGED <<source_df, standings_df>>
  /\ UNCHANGED <<process, USE_STREAMLIT, API_KEY, response, fetched, usando_api,
                 jugadores, result, output, query, match>>

\* ranking_df, corrections = calcular_ranking(standings_df, JUGADORES)
MainRanking ==
  /\ pc = "filtered"
  /\ result' = calcular_ranking(standings_df, JUGADORES)
  /\ pc' = IF result'.raised THEN "crashed" ELSE "ranked"
  /\ UNCHANGED <<process, USE_STREAMLIT, API_KEY, response, fetched, standings_df,
                 source_df, usando_api, jugadores, output, query, match>>

\* print(fuente)
MainFuente ==
  /\ pc = "ranked"
  /\ output' = Append(output, fuente(usando_api))
  /\ pc' = "labelled"
  /\ UNCHANGED <<process, USE_STREAMLIT, API_KEY, response, fetched, standings_df,
                 source_df, usando_api, jugadores, result, query, match>>

\* run_streamlit(standings_df, ranking_df, corrections)
MainStreamlit ==
  /\ pc = "labelled"
  /\ USE_STREAMLIT
  /\ output' = Append(output, "run_streamlit: ranking_df")
  /\ pc' = "done"
  /\ UNCHANGED <<process, USE_STREAMLIT, API_KEY, response, fetched, standings_df,
                 source_df, usando_api, jugadores, result, query, match>>

\* print(ranking_df)
MainConsole ==
  /\ pc = "labelled"
  /\ ~USE_STREAMLIT
  /\ output' = Append(output, "print: ranking_df")
  /\ pc' = "done"
  /\ UNCHANGED <<process, USE_STREAMLIT, API_KEY, response, fetched, standings_df,
                 source_df, usando_api, jugadores, result, query, match>>

Next ==
  \/ MainFetch
  \/ MainFilter
  \/ MainRanking
  \/ MainFuente
  \/ MainStreamlit
  \/ MainConsole

Spec == InitMain /\ [][Next]_vars

\* main runs to its end: a sequential program takes its next step.
FairSpec == Spec /\ WF_vars(Next)

(* ------------------------------------------------------------------ *)
(* Calls of best_match on their own                                     *)
(* ------------------------------------------------------------------ *)

MatchNames ==
  {"Inter", "inter", "Inter Milan", "Milan Inter", "S.L. Benfica", "SL Benfica",
   "Napoli", ""}

MatchCutoffs == {DefaultCutoff, 100}

InitMatch ==
  /\ pc = "match_start"
  /\ process \in {None, "rapidfuzz"}
  /\ query \in [name : MatchNames, choices : SeqsUpTo(MatchNames, MaxChoices),
                cutoff : MatchCutoffs]
  /\ match = Pair(None, 0)
  /\ USE_STREAMLIT = FALSE
  /\ API_KEY = None
  /\ response = NoResponse
  /\ fetched = NoOutcome
  /\ standings_df = NoFrame
  /\ source_df = NoFrame
  /\ usando_api = FALSE
  /\ jugadores = <<>>
  /\ result = NoResult
  /\ output = <<>>

MatchCall ==
  /\ pc = "match_start"
  /\ match' = best_match(query.name, query.choices, query.cutoff)
  /\ pc' = "match_done"
  /\ UNCHANGED <<process, USE_STREAMLIT, API_KEY, response, fetched, standings_df,
                 source_df, usando_api, jugadores, result, output, query>>

SpecMatch == InitMatch /\ [][MatchCall]_vars

(* ------------------------------------------------------------------ *)
(* Calls of calcular_ranking, and of the filtering step before it       *)
(* ------------------------------------------------------------------ *)

\* The rows of the tables handed to calcular_ranking: two teams with a common
\* prefix, a third team, a team named as an alias that does not contain its
\* label, and a team of empty name.
RankRows ==
  { Row("Inter Miami", 3), Row("Inter Milan", 7), Row("Napoli", 10), Row("OM", 6),
    Row("", 1) }

\* The frames handed to calcular_ranking: a frame of no rows without columns, and
\* the frames of at most MaxRows rows with the columns Team and Pts.
RankFrames ==
  {DataFrame(<<>>)} \cup
  { [columns |-> {"Team", "Pts"}, rows |-> rows] : rows \in SeqsUpTo(RankRows, MaxRows) }

RankIds == {"Ana", "Beto"}

\* The pairs of labels of a participant: labels with and without ALIASES, among
\* them a label that is itself the alias of the other label of its pair.
RankPairs ==
  { <<"Inter", "Napoli">>, <<"Napoli", "Unknown FC">>, <<"Unknown FC", "Inter">>,
    <<"Marseille", "OM">> }

\* The participants mappings: at most MaxJugadores entries of distinct ids, in
\* every insertion order.
RankJugadores ==
  { js \in SeqsUpTo([id : RankIds, equipos : RankPairs], MaxJugadores) :
      \A i, k \in 1..Len(js) : i # k => js[i].id # js[k].id }

InitRank ==
  /\ pc = "rank_start"
  /\ process \in {None, "rapidfuzz"}
  /\ standings_df \in RankFrames
  /\ jugadores \in RankJugadores
  /\ source_df = NoFrame
  /\ result = NoResult
  /\ USE_STREAMLIT = FALSE
  /\ API_KEY = None
  /\ response = NoResponse
  /\ fetched = NoOutcome
  /\ usando_api = FALSE
  /\ output = <<>>
  /\ query = NoQuery
  /\ match = Pair(None, 0)

\* calcular_ranking(standings_df, jugadores) on the table as it is.
RankCall ==
  /\ pc = "rank_start"
  /\ result' = calcular_ranking(standings_df, jugadores)
  /\ pc' = "rank_done"
  /\ UNCHANGED <<process, USE_STREAMLIT, API_KEY, response, fetched, standings_df,
                 source_df, usando_api, jugadores, output, query, match>>

\* The filtering step of main on the table, for the participants of the call.
RankFilter ==
  /\ pc = "rank_start"
  /\ IF "Team" \in standings_df.columns
       THEN /\ source_df' = standings_df
            /\ standings_df' = filtrar(standings_df, jugadores)
            /\ pc' = "rank_filtered"
       ELSE /\ pc' = "rank_crashed"
            /\ UNCHANGED <<source_df, standings_df>>
  /\ UNCHANGED <<process, USE_STREAMLIT, API_KEY, response, fetched, usando_api,
                 jugadores, result, output, query, match>>

\* calcular_ranking(standings_df, jugadores) on the filtered table.
RankFilteredCall ==
  /\ pc = "rank_filtered"
  /\ result' = calcular_ranking(standings_df, jugadores)
  /\ pc' = "rank_filtered_done"
  /\ UNCHANGED <<process, USE_STREAMLIT, API_KEY, response, fetched, standings_df,
                 source_df, usando_api, jugadores, output, query, match>>

NextRank == RankCall \/ RankFilter \/ RankFilteredCall

SpecRank == InitRank /\ [][NextRank]_vars

(* ------------------------------------------------------------------ *)
(* Calls of obtener_standings_api, and of calcular_ranking on its table *)
(* ------------------------------------------------------------------ *)

ApiJugadores == << [id |-> "Ana", equipos |-> <<"Inter", "Arsenal">>] >>

\* Without a key no request is sent, so there is no reply.
InitApi ==
  /\ pc = "api_start"
  /\ process \in {None, "rapidfuzz"}
  /\ \/ API_KEY = "secret" /\ response \in Responses
     \/ API_KEY \in {None, ""} /\ response = NoResponse
  /\ fetched = NoOutcome
  /\ standings_df = NoFrame
  /\ jugadores = ApiJugadores
  /\ source_df = NoFrame
  /\ result = NoResult
  /\ USE_STREAMLIT = FALSE
  /\ usando_api = FALSE
  /\ output = <<>>
  /\ query = NoQuery
  /\ match = Pair(None, 0)

ApiCall ==
  /\ pc = "api_start"
  /\ fetched' = obtener_standings_api(API_KEY, response)
  /\ standings_df' = IF fetched'.raised THEN standings_df ELSE fetched'.value
  /\ pc' = IF fetched'.raised THEN "api_raised" ELSE "api_returned"
  /\ UNCHANGED <<process, USE_STREAMLIT, API_KEY, response, source_df, usando_api,
                 jugadores, result, output, query, match>>

ApiRanking ==
  /\ pc = "api_returned"
  /\ result' = calcular_ranking(standings_df, jugadores)
  /\ pc' = "api_ranked"
  /\ UNCHANGED <<process, USE_STREAMLIT, API_KEY, response, fetched, standings_df,
                 source_df, usando_api, jugadores, output, query, match>>

NextApi == ApiCall \/ ApiRanking

SpecApi == InitApi /\ [][NextApi]_vars

(* ------------------------------------------------------------------ *)
(* Properties                                                           *)
(* ------------------------------------------------------------------ *)

\* The similarity score of a name and a candidate in the matching mode in use:
\* the token sort ratio with rapidfuzz, as an integer percentage, and 100 or 0 by
\* substring without it.
Similarity(name, c) ==
  IF process = None
    THEN IF IsSubstring(norm(name), norm(c)) \/ IsSubstring(norm(c), norm(name))
           THEN 100 ELSE 0
    ELSE int(token_sort_ratio(name, c))

\* The found records of the two labels of every row of a returned ranking.
AllRows(res) == UNION { g : g \in Range(res.value.ranking_df) }

AllFound(res) == UNION { {r.found[1], r.found[2]} : r \in AllRows(res) }

\* C1: best_match never returns a candidate with a score below cutoff, and returns
\* (None, 0) whenever no candidate's similarity to name reaches cutoff.
C1_CutoffRespected ==
  pc = "match_done" =>
    /\ match.candidate # None => match.score >= query.cutoff
    /\ (\A i \in 1..Len(query.choices) :
          Similarity(query.name, query.choices[i]) < query.cutoff)
       => match = Pair(None, 0)

\* C2: when the normalized name equals the normalized form of some candidate and
\* cutoff <= 100, best_match returns a candidate of that normalized form with
\* score 100, whatever candidates precede it.
C2_ExactMatchWins ==
  (pc = "match_done" /\ query.cutoff <= 100) =>
    \A i \in 1..Len(query.choices) :
      norm(query.choices[i]) = norm(query.name) =>
        /\ match.score = 100
        /\ match.candidate # None
        /\ norm(match.candidate) = norm(query.name)

\* C3: in calcular_ranking a label whose probe set (the label, then its ALIASES)
\* contains an official team name of the standings is resolved to that name with
\* score 100 and credited that team's points.
C3_ExactProbeResolves ==
  (pc = "rank_done" /\ ~result.raised) =>
    \A f \in AllFound(result) :
      \A i \in 1..Len(standings_df.rows) :
        standings_df.rows[i].Team \in Range(posibles(f.label)) =>
          /\ f.best = standings_df.rows[i].Team
          /\ f.score = 100
          /\ f.detalle.found
          /\ \E k \in 1..Len(standings_df.rows) :
               /\ standings_df.rows[k].Team = f.best
               /\ standings_df.rows[k].Pts = f.pts

\* The highest similarity of any probe of a label to any official name.
BestScore(label, names) ==
  LET scores == { Similarity(p, c) : p \in Range(posibles(label)), c \in Range(names) }
  IN IF scores = {} THEN 0 ELSE CHOOSE m \in scores : \A x \in scores : m >= x

\* C4: every row's Total Pts is the sum of the points credited to its two labels,
\* and a label whose best score is below the threshold of 60 credits 0 points.
C4_TotalAndThreshold ==
  (pc = "rank_done" /\ ~result.raised) =>
    \A r \in AllRows(result) :
      /\ r.TotalPts = r.found[1].pts + r.found[2].pts
      /\ \A k \in 1..2 :
           BestScore(r.found[k].label, official_names(standings_df)) < DefaultCutoff
             => r.found[k].pts = 0

\* C5: every ranking calcular_ranking can return is in descending order of Total
\* Pts, and participants of equal totals come in ascending order of id.
C5_TiesByIdAscending ==
  (pc = "rank_done" /\ ~result.raised) =>
    \A r \in Orders(result.value.ranking_df) :
      \A i, k \in 1..Len(r) :
        i < k =>
          /\ r[i].TotalPts >= r[k].TotalPts
          /\ r[i].TotalPts = r[k].TotalPts => StrLess(r[i].Jugador, r[k].Jugador)

\* C6: calcular_ranking never raises, for every standings table and every
\* participants mapping, the empty ones included.
C6_NeverRaises == pc = "rank_done" => ~result.raised

\* No credential was configured at the start of main: API_KEY was None or empty,
\* and main has put the placeholder in its place.
NoCredential == ~Truthy(API_KEY) \/ API_KEY = Placeholder

\* C7: when no credential is configured at the start of main, the run aborts:
\* calcular_ranking is never called and no ranking is output.
C7_NoCredentialAborts ==
  NoCredential =>
    /\ pc \notin {"filtered", "ranked", "labelled", "done"}
    /\ result = NoResult
    /\ "run_streamlit: ranking_df" \notin Range(output)
    /\ "print: ranking_df" \notin Range(output)

\* The call of obtener_standings_api in main has raised.
FetchFailed == pc # "start" /\ fetched.raised

RankingShown ==
  /\ pc = "done"
  /\ ~result.raised
  /\ result.value.ranking_df # <<>>
  /\ \/ "run_streamlit: ranking_df" \in Range(output)
     \/ "print: ranking_df" \in Range(output)

\* C8: when obtener_standings_api fails in main, main takes the example table of
\* ejemplo_standings, and then always filters, ranks with calcular_ranking and
\* outputs the ranking; the source label reports example data exactly when the
\* fallback was taken.
C8_FallbackContinues ==
  /\ []((FetchFailed /\ pc = "fetched") =>
          (standings_df = ejemplo_standings /\ ~usando_api))
  /\ (FetchFailed ~> RankingShown)
  /\ [](pc \in {"labelled", "done"} =>
          /\ fuente(FALSE) \in Range(output) <=> fetched.raised
          /\ fuente(TRUE) \in Range(output) <=> ~fetched.raised)

C8_Witness ==
  /\ RankingShown
  /\ fetched.raised
  /\ fuente(FALSE) \in Range(output)
  /\ source_df = ejemplo_standings

\* The table entries obtener_standings_api reads from a reply, in source order:
\* the table of the first standing of type TOTAL, or every table in order.
RECURSIVE Flatten(_)
Flatten(tables) ==
  IF tables = <<>> THEN <<>> ELSE Head(tables) \o Flatten(Tail(tables))

SourceEntries(resp) ==
  LET st == resp.standings
      totals == { i \in 1..Len(st) : st[i].type \in {"TOTAL", "Total", "total"} }
  IN IF totals # {}
       THEN st[CHOOSE i \in totals : \A k \in totals : i <= k].table
       ELSE Flatten([i \in 1..Len(st) |-> st[i].table])

\* Entry m is the first entry of its team name in src.
FirstOf(src, m) == \A n \in 1..(m - 1) : src[n].team.name # src[m].team.name

\* C9: a table returned by obtener_standings_api has no two rows of the same team
\* name, its rows are the first occurrences of the team names of the source in
\* source order, and calcular_ranking credits a resolved team the points of that
\* first row.
C9_FirstOccurrenceKept ==
  (pc \in {"api_returned", "api_ranked"}) =>
    LET rows == standings_df.rows
        src == SourceEntries(response)
        firsts == SelectSeq([m \in 1..Len(src) |-> m], LAMBDA m : FirstOf(src, m))
    IN /\ \A i, k \in 1..Len(rows) : i # k => rows[i].Team # rows[k].Team
       /\ Len(rows) = Len(firsts)
       /\ \A i \in 1..Len(rows) :
            /\ rows[i].Team = src[firsts[i]].team.name
            /\ rows[i].Pts = src[firsts[i]].points
       /\ (pc = "api_ranked" /\ ~result.raised) =>
            \A f \in AllFound(result) :
              f.detalle.found =>
                \E m \in 1..Len(src) :
                  /\ FirstOf(src, m)
                  /\ src[m].team.name = f.best
                  /\ src[m].points = f.pts

C9_Witness ==
  /\ pc = "api_ranked"
  /\ ~result.raised
  /\ \E f \in AllFound(result) : f.best = "Inter" /\ f.pts = 4
  /\ \E m \in 1..Len(SourceEntries(response)) :
       /\ SourceEntries(response)[m].team.name = "Inter"
       /\ SourceEntries(response)[m].points = 9
  /\ Len(response.standings) = 2
  /\ Len(standings_df.rows) = 2

UniqueNames(df) ==
  \A i, k \in 1..Len(df.rows) : i # k => df.rows[i].Team # df.rows[k].Team

\* What a row of the ranking shows of a participant.
Visible(r) ==
  [Jugador |-> r.Jugador, Equipo1 |-> r.Equipo1, Equipo2 |-> r.Equipo2,
   TotalPts |-> r.TotalPts]

\* C10: with the substring matcher, on a table of unique team names the ranking
\* computed after the filtering step of main gives every participant the same
\* two resolved teams and the same total as the ranking on the unfiltered table.
C10_FilterChangesNothing ==
  (pc = "rank_filtered_done" /\ process = None /\ UniqueNames(source_df)) =>
    /\ result.raised = (jugadores = <<>>)
    /\ ~result.raised =>
         { Visible(r) : r \in AllRows(result) }
           = { Visible(r) : r \in Range(RankingRows(source_df, jugadores)) }

====
